---- MODULE Spec2Model ----
(***************************************************************************)
(* Model of bridge/vni.c (iproute2): the "bridge vni" command.             *)
(*                                                                         *)
(*   SpecModify  vni_modify: argument parsing, validation, request build   *)
(*   SpecCodec   parse_vni_filter -> print_vni -> parse_vni_filter         *)
(*   SpecShow    vni_show / print_vnifilter_rtm over a batch of commands   *)
(*                                                                         *)
(* C strings are sequences of one-character strings.                       *)
(***************************************************************************)
EXTENDS Integers, Sequences, FiniteSets, TLC

VARIABLES
    pc,            \* position of the process
    argv,          \* argument vector of the command being run
    daddr0,        \* vni_modify: content of the uninitialized local daddr
    res,           \* vni_modify: outcome of the last command
    req,           \* vni_modify: the request buffer handed to rtnl_talk
    filter_index,  \* static unsigned int filter_index
    show_dev,      \* vni_show: the device named by the running show
    nrecv,         \* vni_show: messages delivered by the running dump
    out,           \* vni_show: entries printed by the running dump
    trace,         \* vni_show: open_vni_port / close_vni_port calls
    jdepth,        \* vni_show: json objects/arrays opened minus closed
    last,          \* vni_show: the last message given to the callback
    vnispec,       \* codec: the VNI specification string
    group,         \* codec: the endpoint given to parse_vni_filter
    enc,           \* codec: the request built by parse_vni_filter
    shown,         \* codec: what print_vni printed for each block
    text,          \* codec: the printed text of the ranges
    reparsed       \* codec: the request built from the printed text

vars == <<pc, argv, daddr0, res, req, filter_index, show_dev, nrecv, out,
          trace, jdepth, last, vnispec, group, enc, shown, text, reparsed>>

modifyVars == <<argv, daddr0, res, req>>
showVars   == <<filter_index, show_dev, nrecv, out, trace, jdepth, last>>
codecVars  == <<vnispec, group, enc, shown, text, reparsed>>

----------------------------------------------------------------------------
(* Bounds of the model *)

MaxClauses == 3     \* clauses of an add/delete command line
MaxTokens  == 2     \* tokens of a short VNI specification
MaxMsgs    == 2     \* messages delivered by one dump

----------------------------------------------------------------------------
(* Sizes *)

BufSize      == 1024                 \* char buf[1024]; also the literal
                                     \* maxlen of the addattr32/addattr_l calls
NlmsgHdrLen  == 16                   \* sizeof(struct nlmsghdr)
TunnelMsgLen == 8                    \* sizeof(struct tunnel_msg)
RtaHdrLen    == 4                    \* sizeof(struct rtattr)
PadWidth     == 14                   \* "%-14u"

Align4(x) == ((x + 3) \div 4) * 4

NLMSG_LENGTH(len) == len + NlmsgHdrLen
RTA_LENGTH(len)   == RtaHdrLen + len

ReqSize == NlmsgHdrLen + TunnelMsgLen + BufSize    \* sizeof(req)

----------------------------------------------------------------------------
(* C string helpers *)

Digits == <<"0","1","2","3","4","5","6","7","8","9">>

IsDigit(c) == \E i \in 1..10 : Digits[i] = c

DigitVal(c) == (CHOOSE i \in 1..10 : Digits[i] = c) - 1

IsSpace(c) == c = " "

Tail0(s, k) == SubSeq(s, k, Len(s))     \* the string starting at index k

RECURSIVE SkipSpace(_)
SkipSpace(s) ==
    IF s # <<>> /\ IsSpace(Head(s)) THEN SkipSpace(Tail(s)) ELSE s

RECURSIVE AccDigits(_, _)
AccDigits(s, acc) ==
    IF s # <<>> /\ IsDigit(Head(s))
    THEN AccDigits(Tail(s), acc * 10 + DigitVal(Head(s)))
    ELSE acc

\* atoi(3): leading blanks, an optional sign, then the leading digits
atoi(s) ==
    LET t == SkipSpace(s) IN
    IF t # <<>> /\ Head(t) = "-" THEN 0 - AccDigits(Tail(t), 0)
    ELSE IF t # <<>> /\ Head(t) = "+" THEN AccDigits(Tail(t), 0)
    ELSE AccDigits(t, 0)

\* strchr(s, c): index of the first c in s, 0 when there is none
strchr(s, c) ==
    IF \E i \in 1..Len(s) : s[i] = c
    THEN CHOOSE i \in 1..Len(s) : s[i] = c /\ \A j \in 1..(i-1) : s[j] # c
    ELSE 0

\* strtok(s, ","), called until it returns NULL: the non-empty runs of
\* characters other than the delimiter, in order.  TokStarts is where a run
\* begins, TokEnd where the run beginning at i ends.
TokStarts(s, d) ==
    {i \in 1..Len(s) : s[i] # d /\ (i = 1 \/ s[i - 1] = d)}

TokEnd(s, d, i) ==
    CHOOSE j \in i..Len(s) :
        /\ \A k \in i..j : s[k] # d
        /\ (j = Len(s) \/ s[j + 1] = d)

strtok(s, d) ==
    LET starts == TokStarts(s, d)
        nth(k) == CHOOSE i \in starts : Cardinality({j \in starts : j <= i}) = k
    IN [k \in 1..Cardinality(starts) |->
            SubSeq(s, nth(k), TokEnd(s, d, nth(k)))]

\* printf("%u")
RECURSIVE FmtU(_)
FmtU(n) == IF n < 10 THEN <<Digits[n + 1]>>
           ELSE FmtU(n \div 10) \o <<Digits[(n % 10) + 1]>>

RECURSIVE Blanks(_)
Blanks(k) == IF k <= 0 THEN <<>> ELSE <<" ">> \o Blanks(k - 1)

\* printf("%-14u"): left justified in a field of PadWidth
FmtUPad(n) == LET d == FmtU(n) IN d \o Blanks(PadWidth - Len(d))

----------------------------------------------------------------------------
(* Addresses (inet_prefix) *)

NULLP == [family |-> "NULL", bytelen |-> 0, data |-> <<>>, flags |-> {}]

IsZero(bytes) == \A i \in 1..Len(bytes) : bytes[i] = 0

\* IN_MULTICAST(ntohl(addr)): (a & 0xf0000000) == 0xe0000000, the top four
\* bits of the first byte of the address in network byte order
IN_MULTICAST(bytes) == bytes[1] \div 16 = 14

IN6_IS_ADDR_MULTICAST(bytes) == bytes[1] = 255

IN6_IS_ADDR_UNSPECIFIED(bytes) == IsZero(bytes)

\* set_address_type(): the ADDRTYPE_ flags of a parsed address
set_address_type(family, data) ==
    IF family = "AF_INET"
    THEN IF IsZero(data) THEN {"INET", "UNSPEC"}
         ELSE IF IN_MULTICAST(data) THEN {"INET", "MULTI"}
         ELSE {"INET"}
    ELSE IF family = "AF_INET6"
    THEN IF IN6_IS_ADDR_UNSPECIFIED(data) THEN {"INET", "UNSPEC"}
         ELSE IF IN6_IS_ADDR_MULTICAST(data) THEN {"INET", "MULTI"}
         ELSE {"INET"}
    ELSE {}

Prefix(family, data) ==
    [family |-> family, bytelen |-> Len(data), data |-> data,
     flags |-> set_address_type(family, data)]

is_addrtype_inet(p)           == "INET" \in p.flags
is_addrtype_inet_multi(p)     == p.flags \cap {"INET", "MULTI"} = {"INET", "MULTI"}
is_addrtype_inet_not_multi(p) == p.flags \cap {"INET", "MULTI"} = {"INET"}

V4(a, b, c, d) == Prefix("AF_INET", <<a, b, c, d>>)
V6(hi, lo)     == Prefix("AF_INET6", <<hi, 0, 0, 0, 0, 0, 0, 0, 0, 0, 0, 0, 0, 0, 0, lo>>)

----------------------------------------------------------------------------
(* The request buffer: struct nlmsghdr followed by rtattrs *)

\* host (little endian) representation of a __u32 and back
U32Bytes(v) == <<v % 256, (v \div 256) % 256, (v \div 65536) % 256,
                 (v \div 16777216) % 256>>

rta_getattr_u32(a) ==
    a.data[1] + 256 * a.data[2] + 65536 * a.data[3] + 16777216 * a.data[4]

Fits(n, maxlen, alen) ==
    Align4(n.nlmsg_len) + Align4(RTA_LENGTH(alen)) <= maxlen

\* addattr_l(): append one attribute, or leave the message alone (and
\* return -1) when it does not fit in maxlen
addattr_l(n, maxlen, type, data) ==
    IF ~Fits(n, maxlen, Len(data)) THEN n
    ELSE LET a == [rta_type |-> type, nested |-> FALSE, kids |-> <<>>,
                   data |-> data]
             len == Align4(n.nlmsg_len) + Align4(RTA_LENGTH(Len(data)))
         IN IF n.nest = 0
            THEN [n EXCEPT !.nlmsg_len = len, !.attrs = Append(@, a)]
            ELSE [n EXCEPT !.nlmsg_len = len,
                           !.attrs[n.nest].kids =
                               Append(@, [rta_type |-> type, data |-> data])]

addattr32(n, maxlen, type, v) == addattr_l(n, maxlen, type, U32Bytes(v))

\* addattr_nest(): the nest is the tail of the message, whether or not the
\* header of the nest could be added
addattr_nest(n, maxlen, type) ==
    IF ~Fits(n, maxlen, 0) THEN [n EXCEPT !.nest = 0]
    ELSE [n EXCEPT !.nlmsg_len = Align4(n.nlmsg_len) + Align4(RTA_LENGTH(0)),
                   !.attrs = Append(@, [rta_type |-> type, nested |-> TRUE,
                                        kids |-> <<>>, data |-> <<>>]),
                   !.nest = Len(n.attrs) + 1]

\* addattr_nest_end(): nest->rta_len = tail - nest.  When the nest header
\* was not added the store lands at the tail; with the message as long as
\* the buffer that is a store past the end of req.
addattr_nest_end(n, nestok) ==
    [n EXCEPT !.nest = 0,
              !.overrun = @ \/ (~nestok /\ Align4(n.nlmsg_len) + 2 > ReqSize)]

----------------------------------------------------------------------------
(* parse_vni_filter *)

\* one token: "start" or "start-end".  The tokens of the model are unsigned
\* and below 2^24, so the int to __u32 conversions keep the value.
VniToken(vni) ==
    LET v == strchr(vni, "-") IN
    IF v # 0
    THEN [vni_start |-> atoi(SubSeq(vni, 1, v - 1)),
          vni_end   |-> atoi(Tail0(vni, v + 1))]
    ELSE [vni_start |-> atoi(vni), vni_end |-> 0]

\* the attribute type chosen without looking at the family
GroupType_mut(g) ==
    IF g # NULLP /\ is_addrtype_inet(g) THEN "VXLAN_VNIFILTER_ENTRY_GROUP"
    ELSE "AF_UNSPEC"

\* group_type: the attribute type of the endpoint
GroupType(g) ==
    IF g # NULLP /\ is_addrtype_inet(g)
    THEN IF g.family = "AF_INET" THEN "VXLAN_VNIFILTER_ENTRY_GROUP"
                                 ELSE "VXLAN_VNIFILTER_ENTRY_GROUP6"
    ELSE "AF_UNSPEC"

\* the body of the for loop, for one token
VniFilterEntry(n, reqsize, g, vni) ==
    LET t  == VniToken(vni)
        ok == Fits(n, reqsize, 0)
        n1 == addattr_nest(n, reqsize, "VXLAN_VNIFILTER_ENTRY")
        n2 == addattr32(n1, BufSize, "VXLAN_VNIFILTER_ENTRY_START", t.vni_start)
        n3 == IF t.vni_end # 0
              THEN addattr32(n2, BufSize, "VXLAN_VNIFILTER_ENTRY_END", t.vni_end)
              ELSE n2
        n4 == IF g # NULLP
              THEN addattr_l(n3, BufSize, GroupType(g), g.data)
              ELSE n3
    IN addattr_nest_end(n4, ok)

\* the for loop over the tokens lo..hi: the iterations run in order, each on
\* the message the previous one left (split in halves to bound the depth of
\* the evaluation)
RECURSIVE VniFilterLoop(_, _, _, _, _, _)
VniFilterLoop(n, reqsize, g, toks, lo, hi) ==
    IF lo > hi THEN n
    ELSE IF lo = hi THEN VniFilterEntry(n, reqsize, g, toks[lo])
    ELSE LET mid == (lo + hi) \div 2
             h   == VniFilterLoop(n, reqsize, g, toks, lo, mid)
         IN IF h.nest = 0       \* every iteration ends its nest
            THEN VniFilterLoop(h, reqsize, g, toks, mid + 1, hi)
            ELSE h

parse_vni_filter(str, n, reqsize, g) ==
    LET toks == strtok(str, ",") IN
    VniFilterLoop(n, reqsize, g, toks, 1, Len(toks))

----------------------------------------------------------------------------
(* print_vni *)

\* parse_rtattr_flags(): tb[type] is the first attribute of that type
HasAttr(kids, type) == \E i \in 1..Len(kids) : kids[i].rta_type = type

GetAttr(kids, type) ==
    kids[CHOOSE i \in 1..Len(kids) :
            kids[i].rta_type = type /\ \A j \in 1..(i-1) : kids[j].rta_type # type]

\* print_range(name, start, id): " %u" and, for start != id, "-%-14u "
print_range(start, id) ==
    [vni |-> start, hasEnd |-> start # id, vniEnd |-> IF start # id THEN id ELSE 0,
     text |-> <<" ">> \o FmtU(start) \o
              (IF start # id THEN <<"-">> \o FmtUPad(id) \o <<" ">> ELSE <<>>)]

\* the "vni" part of print_vni
PrintVniId(kids) ==
    LET vni_start == IF HasAttr(kids, "VXLAN_VNIFILTER_ENTRY_START")
                     THEN rta_getattr_u32(GetAttr(kids, "VXLAN_VNIFILTER_ENTRY_START"))
                     ELSE 0
        vni_end   == IF HasAttr(kids, "VXLAN_VNIFILTER_ENTRY_END")
                     THEN rta_getattr_u32(GetAttr(kids, "VXLAN_VNIFILTER_ENTRY_END"))
                     ELSE 0
    IN IF vni_end # 0 THEN print_range(vni_start, vni_end)
       ELSE [vni |-> vni_start, hasEnd |-> FALSE, vniEnd |-> 0,
             text |-> <<" ">> \o FmtUPad(vni_start)]

\* the "group"/"remote" part of print_vni
PrintVniEndpoint(kids) ==
    IF HasAttr(kids, "VXLAN_VNIFILTER_ENTRY_GROUP")
    THEN LET addr == GetAttr(kids, "VXLAN_VNIFILTER_ENTRY_GROUP").data IN
         IF ~IsZero(addr)
         THEN IF IN_MULTICAST(addr) THEN [key |-> "group", addr |-> addr]
                                          ELSE [key |-> "remote", addr |-> addr]
         ELSE [key |-> "none", addr |-> <<>>]
    ELSE IF HasAttr(kids, "VXLAN_VNIFILTER_ENTRY_GROUP6")
    THEN LET addr == GetAttr(kids, "VXLAN_VNIFILTER_ENTRY_GROUP6").data IN
         IF ~IN6_IS_ADDR_UNSPECIFIED(addr)
         THEN IF IN6_IS_ADDR_MULTICAST(addr) THEN [key |-> "group", addr |-> addr]
                                             ELSE [key |-> "remote", addr |-> addr]
         ELSE [key |-> "none", addr |-> <<>>]
    ELSE [key |-> "none", addr |-> <<>>]

print_vni(t) ==
    LET id == PrintVniId(t.kids)
        ep == PrintVniEndpoint(t.kids)
    IN [vni |-> id.vni, hasEnd |-> id.hasEnd, vniEnd |-> id.vniEnd,
        text |-> id.text, key |-> ep.key, addr |-> ep.addr]

\* the attribute walk of print_vnifilter_rtm: the VNI filter entries of a
\* message, in order
IsEntryAttr(a) == a.rta_type = "VXLAN_VNIFILTER_ENTRY"

EntryAttrs(attrs) == SelectSeq(attrs, IsEntryAttr)

PrintEntries(attrs) ==
    LET es == EntryAttrs(attrs) IN [i \in 1..Len(es) |-> print_vni(es[i])]

----------------------------------------------------------------------------
(* Inputs of the codec: VNI specification strings and endpoints *)

VNIs == {0, 100, 105}

SingleTok(a)   == FmtU(a)
RangeTok(a, b) == FmtU(a) \o <<"-">> \o FmtU(b)
DashTok(a)     == FmtU(a) \o <<"-">>

ValidTokens == {SingleTok(a) : a \in VNIs} \cup
               {RangeTok(p[1], p[2]) : p \in {q \in VNIs \X VNIs : q[1] <= q[2]}}

Tokens == ValidTokens \cup {DashTok(a) : a \in VNIs}

\* the tokens lo..hi joined by commas
RECURSIVE JoinRange(_, _, _)
JoinRange(toks, lo, hi) ==
    IF lo > hi THEN <<>>
    ELSE IF lo = hi THEN toks[lo]
    ELSE LET mid == (lo + hi) \div 2 IN
         JoinRange(toks, lo, mid) \o <<",">> \o JoinRange(toks, mid + 1, hi)

Join(toks) == JoinRange(toks, 1, Len(toks))

TokenLists == UNION {[1..k -> Tokens] : k \in 1..MaxTokens}

\* the same token n times: lists long enough to fill the request buffer
LongCounts == {83, 84, 90, 91}

LongLists == {[i \in 1..n |-> SingleTok(7)] : n \in LongCounts} \cup
             {[i \in 1..n |-> RangeTok(100, 105)] : n \in {50, 51}}

Endpoints == {NULLP,
              V4(239, 1, 1, 1), V4(10, 0, 0, 1), V4(0, 0, 0, 0),
              V6(255, 1), V6(254, 1), V6(0, 0)}

----------------------------------------------------------------------------
(* vni_modify *)

NULLSTR == <<"NULL">>          \* the NULL char pointer; no C string equals it

KW_dev    == <<"d", "e", "v">>
KW_vni    == <<"v", "n", "i">>
KW_group  == <<"g", "r", "o", "u", "p">>
KW_remote == <<"r", "e", "m", "o", "t", "e">>
KW_help   == <<"h", "e", "l", "p">>

Dev_vx0   == <<"v", "x", "0">>
Dev_vx1   == <<"v", "x", "1">>
Dev_none  == <<"n", "o", "d", "e", "v">>

Txt_mc4   == <<"2", "3", "9", ".", "1", ".", "1", ".", "1">>
Txt_uc4   == <<"1", "0", ".", "0", ".", "0", ".", "1">>
Txt_uc4b  == <<"1", "0", ".", "0", ".", "0", ".", "2">>
Txt_mc6   == <<"f", "f", "0", "0", ":", ":", "1">>

\* ll_name_to_index(): the interfaces of the host, 0 for an unknown name
ll_name_to_index(name) ==
    IF name = Dev_vx0 THEN 3 ELSE IF name = Dev_vx1 THEN 4 ELSE 0

\* get_addr(): the address a text denotes; anything else is not an address
\* and get_addr() exits
IsAddrText(t) == t \in {Txt_mc4, Txt_uc4, Txt_uc4b, Txt_mc6}

get_addr(t) ==
    IF t = Txt_mc4 THEN V4(239, 1, 1, 1)
    ELSE IF t = Txt_uc4 THEN V4(10, 0, 0, 1)
    ELSE IF t = Txt_uc4b THEN V4(10, 0, 0, 2)
    ELSE V6(255, 1)

\* what the uninitialized local daddr can hold when "group" reads its flags
Garbage(flags) == [family |-> "garbage", bytelen |-> 0, data |-> <<>>,
                   flags |-> flags]

StackGarbage == {Garbage({}), Garbage({"INET"}), Garbage({"INET", "MULTI"})}

ArgInit(g) == [i |-> 1, d |-> NULLSTR, vni |-> NULLSTR, group_present |-> FALSE,
               daddr |-> g, err |-> "none", exited |-> FALSE]

Stop(st, e, x) == [st EXCEPT !.err = e, !.exited = x]

\* one iteration of the while (argc > 0) loop, on argument st.i of av
ArgStep(av, st) ==
    LET a    == av[st.i]
        more == st.i + 1 <= Len(av)              \* NEXT_ARG() succeeds
        nxt  == av[st.i + 1]
    IN
    IF a = KW_dev THEN
        IF ~more THEN Stop(st, "incomplete_command", TRUE)
        ELSE [st EXCEPT !.d = nxt, !.i = st.i + 2]
    ELSE IF a = KW_vni THEN
        IF ~more THEN Stop(st, "incomplete_command", TRUE)
        ELSE IF st.vni # NULLSTR THEN Stop(st, "duplicate_vni", TRUE)
        ELSE [st EXCEPT !.vni = nxt, !.i = st.i + 2]
    ELSE IF a = KW_group THEN
        IF st.group_present THEN Stop(st, "duplicate_group", TRUE)
        ELSE IF is_addrtype_inet_not_multi(st.daddr)
             THEN Stop(st, "conflicting_address", FALSE)
        ELSE IF ~more THEN Stop(st, "incomplete_command", TRUE)
        ELSE IF ~IsAddrText(nxt) THEN Stop(st, "address_expected", TRUE)
        ELSE IF ~is_addrtype_inet_multi(get_addr(nxt))
             THEN Stop([st EXCEPT !.daddr = get_addr(nxt)],
                       "invalid_group_address", TRUE)
        ELSE [st EXCEPT !.daddr = get_addr(nxt), !.group_present = TRUE,
                        !.i = st.i + 2]
    ELSE IF a = KW_remote THEN
        IF st.group_present THEN Stop(st, "duplicate_group", TRUE)
        ELSE IF ~more THEN Stop(st, "incomplete_command", TRUE)
        ELSE IF ~IsAddrText(nxt) THEN Stop(st, "address_expected", TRUE)
        ELSE [st EXCEPT !.daddr = get_addr(nxt), !.group_present = TRUE,
                        !.i = st.i + 2]
    ELSE IF a = KW_help THEN Stop(st, "usage", TRUE)
    ELSE [st EXCEPT !.i = st.i + 1]

RECURSIVE ArgLoop(_, _)
ArgLoop(av, st) ==
    IF st.err # "none" \/ st.i > Len(av) THEN st
    ELSE ArgLoop(av, ArgStep(av, st))

Result(e, r, t, x) == [err |-> e, ret |-> r, talked |-> t, exited |-> x]

NoReq == [nlmsg_type |-> "none", family |-> "none", ifindex |-> 0,
          nlmsg_len |-> 0, attrs |-> <<>>, nest |-> 0, overrun |-> FALSE]

\* the request as initialised by the declaration of req
ReqInit(cmd) == [nlmsg_type |-> cmd, family |-> "PF_BRIDGE", ifindex |-> 0,
                 nlmsg_len |-> NLMSG_LENGTH(TunnelMsgLen), attrs |-> <<>>,
                 nest |-> 0, overrun |-> FALSE]

\* vni_modify(cmd, argc, argv) with garbage g in daddr and a transport whose
\* rtnl_talk() succeeds iff talk_ok: the result and the request it built
vni_modify(cmd, av, g, talk_ok) ==
    LET st == ArgLoop(av, ArgInit(g)) IN
    IF st.err # "none"
    THEN [res |-> Result(st.err, -1, FALSE, st.exited), req |-> ReqInit(cmd)]
    ELSE IF st.d = NULLSTR \/ st.vni = NULLSTR
    THEN [res |-> Result("missing_argument", -1, FALSE, FALSE),
          req |-> ReqInit(cmd)]
    ELSE IF st.vni = NULLSTR /\ st.group_present
    THEN [res |-> Result("invalid_combination", -1, FALSE, FALSE),
          req |-> ReqInit(cmd)]
    ELSE LET n  == IF st.vni # NULLSTR
                   THEN parse_vni_filter(st.vni, ReqInit(cmd), ReqSize,
                                         IF st.group_present THEN st.daddr
                                                             ELSE NULLP)
                   ELSE ReqInit(cmd)
             rq == [n EXCEPT !.ifindex = ll_name_to_index(st.d)]
         IN IF rq.ifindex = 0
            THEN [res |-> Result("unknown_device", -1, FALSE, FALSE), req |-> rq]
            ELSE IF ~talk_ok
            THEN [res |-> Result("transport", -1, TRUE, FALSE), req |-> rq]
            ELSE [res |-> Result("none", 0, TRUE, FALSE), req |-> rq]

----------------------------------------------------------------------------
(* SpecCodec: encode a specification, print the blocks, parse the print *)

ModifyIdle == argv = <<>> /\ daddr0 = NULLP /\ req = NoReq
              /\ res = Result("none", 0, FALSE, FALSE)

ShowIdle == filter_index = 0 /\ show_dev = NULLSTR /\ nrecv = 0 /\ out = <<>>
            /\ trace = <<>> /\ jdepth = 0
            /\ last = [seen |-> FALSE]

CodecIdle == vnispec = <<>> /\ group = NULLP /\ enc = NoReq /\ shown = <<>>
             /\ text = <<>> /\ reparsed = NoReq

InitCodec ==
    /\ pc = "codec"
    /\ \E l \in TokenLists \cup LongLists : vnispec = Join(l)
    /\ group \in Endpoints
    /\ enc = NoReq /\ shown = <<>> /\ text = <<>> /\ reparsed = NoReq
    /\ ModifyIdle /\ ShowIdle

\* parse_vni_filter on the freshly initialised request of vni_modify
Encode ==
    /\ pc = "codec"
    /\ enc' = parse_vni_filter(vnispec, ReqInit("RTM_NEWTUNNEL"), ReqSize, group)
    /\ pc' = "encoded"
    /\ UNCHANGED <<vnispec, group, shown, text, reparsed>>
    /\ UNCHANGED modifyVars /\ UNCHANGED showVars

\* print_vni on every entry block, the printed ranges joined by commas
Decode ==
    /\ pc = "encoded"
    /\ shown' = PrintEntries(enc.attrs)
    /\ text' = Join([i \in 1..Len(shown') |-> shown'[i].text])
    /\ pc' = "printed"
    /\ UNCHANGED <<vnispec, group, enc, reparsed>>
    /\ UNCHANGED modifyVars /\ UNCHANGED showVars

\* parse_vni_filter on the printed text
Reparse ==
    /\ pc = "printed"
    /\ reparsed' = parse_vni_filter(text, ReqInit("RTM_NEWTUNNEL"), ReqSize, NULLP)
    /\ pc' = "reparsed"
    /\ UNCHANGED <<vnispec, group, enc, shown, text>>
    /\ UNCHANGED modifyVars /\ UNCHANGED showVars

NextCodec == Encode \/ Decode \/ Reparse

SpecCodec == InitCodec /\ [][NextCodec]_vars

----------------------------------------------------------------------------
(* SpecModify: add/delete commands of a batch, one at a time *)

Clauses == {<<KW_dev, Dev_vx0>>, <<KW_dev, Dev_none>>,
            <<KW_vni, SingleTok(100)>>,
            <<KW_vni, Join(<<RangeTok(100, 105), SingleTok(0)>>)>>,
            <<KW_group, Txt_mc4>>, <<KW_group, Txt_uc4>>,
            <<KW_remote, Txt_uc4b>>,
            <<KW_group>>, <<KW_help>>, <<Dev_vx1>>}

RECURSIVE Flatten(_)
Flatten(cs) == IF cs = <<>> THEN <<>> ELSE Head(cs) \o Flatten(Tail(cs))

ShortCommands ==
    {Flatten(cs) : cs \in UNION {[1..k -> Clauses] : k \in 0..MaxClauses}}

LongCommands ==
    {<<KW_vni, Join(l), KW_dev, Dev_vx0>> : l \in LongLists}

Commands == ShortCommands \cup LongCommands

InitModify ==
    /\ pc = "idle"
    /\ ModifyIdle /\ ShowIdle /\ CodecIdle

Modify(cmd) ==
    /\ pc = "idle"
    /\ \E av \in Commands, g \in StackGarbage, talk_ok \in BOOLEAN :
         LET r == vni_modify(cmd, av, g, talk_ok) IN
         /\ argv' = av
         /\ daddr0' = g
         /\ res' = r.res
         /\ req' = r.req
         /\ pc' = IF r.res.exited THEN "exited" ELSE "returned"
    /\ UNCHANGED showVars /\ UNCHANGED codecVars

\* do_vni: "add" and "delete"
VniAdd    == Modify("RTM_NEWTUNNEL")
VniDelete == Modify("RTM_DELTUNNEL")

\* the batch loop reads the next command line
NextCommand ==
    /\ pc = "returned"
    /\ pc' = "idle"
    /\ argv' = <<>> /\ daddr0' = NULLP /\ req' = NoReq
    /\ res' = Result("none", 0, FALSE, FALSE)
    /\ UNCHANGED showVars /\ UNCHANGED codecVars

NextModify == VniAdd \/ VniDelete \/ NextCommand

SpecModify == InitModify /\ [][NextModify]_vars

----------------------------------------------------------------------------
(* Reading of a command line made of complete clauses *)

FullClauses == {c \in Clauses : Len(c) = 2}

PlainLists == UNION {[1..k -> FullClauses] : k \in 0..MaxClauses}

Count(cs, kw) == Cardinality({i \in 1..Len(cs) : cs[i][1] = kw})

Returned == pc \in {"returned", "exited"}

\* the group addresses that are multicast, and the names of live interfaces
MulticastText(t) == t \in {Txt_mc4, Txt_mc6}
LiveDevice(d)    == d \in {Dev_vx0, Dev_vx1}

LastDev(cs) ==
    cs[CHOOSE i \in 1..Len(cs) :
          cs[i][1] = KW_dev /\ \A j \in (i+1)..Len(cs) : cs[j][1] # KW_dev][2]

GroupsMulticast(cs) ==
    \A i \in 1..Len(cs) : cs[i][1] = KW_group => MulticastText(cs[i][2])

ValidCommand(cs) ==
    /\ Count(cs, KW_dev) >= 1
    /\ Count(cs, KW_vni) = 1
    /\ Count(cs, KW_group) + Count(cs, KW_remote) <= 1
    /\ GroupsMulticast(cs)
    /\ LiveDevice(LastDev(cs))

\* C1: a command line of complete clauses (at most one "vni") is handed to
\* rtnl_talk if and only if a device and a VNI are given, at most one
\* endpoint is given, a given group is multicast and the device resolves;
\* otherwise an error is reported and nothing is sent.
C1_SentIffValid ==
    Returned =>
        \A cs \in PlainLists :
            (argv = Flatten(cs) /\ Count(cs, KW_vni) <= 1) =>
                /\ res.talked <=> ValidCommand(cs)
                /\ ~ValidCommand(cs) => res.err # "none"

\* C2: a command line with both a (multicast) group and a remote, in either
\* order, is rejected with the conflicting-address error and nothing is sent.
C2_BothIsConflict ==
    Returned =>
        \A cs \in PlainLists :
            (/\ argv = Flatten(cs)
             /\ Count(cs, KW_group) = 1 /\ Count(cs, KW_remote) = 1
             /\ GroupsMulticast(cs)) =>
                res.err = "conflicting_address" /\ ~res.talked

\* C3: a command line with a device and one endpoint but no VNI fails with
\* the invalid-combination error.
C3_EndpointWithoutVni ==
    Returned =>
        \A cs \in PlainLists :
            (/\ argv = Flatten(cs)
             /\ Count(cs, KW_dev) >= 1 /\ Count(cs, KW_vni) = 0
             /\ Count(cs, KW_group) + Count(cs, KW_remote) = 1
             /\ GroupsMulticast(cs)) =>
                res.err = "invalid_combination"

\* the VNI specification of a command that was sent
SentSpec == argv[(CHOOSE i \in 1..Len(argv) : argv[i] = KW_vni) + 1]

TokStart(tok) ==
    LET v == strchr(tok, "-") IN
    IF v = 0 THEN atoi(tok) ELSE atoi(SubSeq(tok, 1, v - 1))

BlocksMatchTokens(attrs, toks) ==
    /\ Len(attrs) = Len(toks)
    /\ \A i \in 1..Len(attrs) :
         /\ attrs[i].rta_type = "VXLAN_VNIFILTER_ENTRY"
         /\ HasAttr(attrs[i].kids, "VXLAN_VNIFILTER_ENTRY_START")
         /\ rta_getattr_u32(GetAttr(attrs[i].kids, "VXLAN_VNIFILTER_ENTRY_START"))
                = TokStart(toks[i])

\* C5: a request that is sent holds one entry block per token of the VNI
\* specification, in token order, each with the START of its token.
C5_OneBlockPerToken ==
    (Returned /\ res.talked) =>
        BlocksMatchTokens(req.attrs, strtok(SentSpec, ","))

----------------------------------------------------------------------------
(* Claims about the codec *)

Encoded == pc \in {"encoded", "printed", "reparsed"}

ShortSpec == Len(strtok(vnispec, ",")) <= MaxTokens

\* a token "a-b" with a text after the dash and b different from a
SpansMany(tok) ==
    LET v == strchr(tok, "-") IN
    /\ v # 0 /\ v < Len(tok)
    /\ atoi(Tail0(tok, v + 1)) # atoi(SubSeq(tok, 1, v - 1))

\* C4: the entry block of a token holds an END child if and only if the
\* token is a range with an end different from its start.
C4_EndIffSpansMany ==
    (Encoded /\ ShortSpec) =>
        LET toks == strtok(vnispec, ",") IN
        /\ Len(enc.attrs) = Len(toks)
        /\ \A i \in 1..Len(toks) :
             HasAttr(enc.attrs[i].kids, "VXLAN_VNIFILTER_ENTRY_END")
                 <=> SpansMany(toks[i])

\* the (start, end) pairs of the entry blocks of a request, end 0 for none
Pairs(attrs) ==
    [i \in 1..Len(attrs) |->
        <<IF HasAttr(attrs[i].kids, "VXLAN_VNIFILTER_ENTRY_START")
          THEN rta_getattr_u32(GetAttr(attrs[i].kids, "VXLAN_VNIFILTER_ENTRY_START"))
          ELSE 0,
          IF HasAttr(attrs[i].kids, "VXLAN_VNIFILTER_ENTRY_END")
          THEN rta_getattr_u32(GetAttr(attrs[i].kids, "VXLAN_VNIFILTER_ENTRY_END"))
          ELSE 0>>]

ValidSpec == \A i \in DOMAIN strtok(vnispec, ",") :
                 strtok(vnispec, ",")[i] \in ValidTokens

\* C6: parsing the printed ranges of a valid specification gives the
\* (start, end) pairs that parsing the specification gave.
C6_RangeRoundTrip ==
    (pc = "reparsed" /\ ShortSpec /\ ValidSpec) =>
        Pairs(reparsed.attrs) = Pairs(enc.attrs)

\* how an endpoint is to be shown
ExpectedKey(g) ==
    IF g = NULLP \/ IsZero(g.data) THEN "none"
    ELSE IF g.family = "AF_INET" /\ g.data[1] \in 224..239 THEN "group"
    ELSE IF g.family = "AF_INET6" /\ g.data[1] = 255 THEN "group"
    ELSE "remote"

\* C7: the block encoded for one range a-b with b > a and an IPv4 or IPv6
\* endpoint (or none) prints as start a, end b, and the endpoint as "group"
\* when multicast, "remote" when non-zero and not multicast, and not at all
\* when zero or absent.
C7_EncodeDecode ==
    pc \in {"printed", "reparsed"} =>
        \A a \in VNIs, b \in VNIs :
            (a < b /\ vnispec = RangeTok(a, b)) =>
                /\ Len(shown) = 1
                /\ shown[1].vni = a
                /\ shown[1].hasEnd /\ shown[1].vniEnd = b
                /\ shown[1].key = ExpectedKey(group)
                /\ shown[1].key # "none" => shown[1].addr = group.data

C7_Witness ==
    /\ pc = "printed"
    /\ vnispec = RangeTok(100, 105)
    /\ group = V4(239, 1, 1, 1)
    /\ Len(shown) = 1
    /\ shown[1].key = "group" /\ shown[1].vniEnd = 105 /\ shown[1].vni = 100

----------------------------------------------------------------------------
(* print_vnifilter_rtm *)

KnownKind(n) == n.nlmsg_type \in {"RTM_NEWTUNNEL", "RTM_DELTUNNEL", "RTM_GETTUNNEL"}

\* the comparison with the interface index inverted
FilteredOut_mut(fi, n) == fi # 0 /\ fi = n.ifindex

\* the message is for another interface than the one the dump is about
FilteredOut(fi, n) == fi # 0 /\ fi # n.ifindex

\* the calls the attribute walk makes for k entry attributes, as the change
\* of the depth of open json objects and arrays: open_vni_port() (an object
\* and an array) before the first entry, an object opened per entry and
\* closed by print_vni(), and close_vni_port() (the array and the object)
\* after the walk
WalkTrace(k) == (IF k > 0 THEN <<"open_vni_port">> ELSE <<>>)
                    \o <<"close_vni_port">>

WalkDepth(k) == (IF k > 0 THEN 2 ELSE 0) - 2

\* print_vnifilter_rtm(n) with filter_index fi: the return value, the entries
\* printed and the port calls made
print_vnifilter_rtm(n, fi) ==
    IF ~KnownKind(n)
    THEN [ret |-> 0, entries |-> <<>>, calls |-> <<>>, depth |-> 0]
    ELSE IF n.nlmsg_len - NLMSG_LENGTH(TunnelMsgLen) < 0
    THEN [ret |-> -1, entries |-> <<>>, calls |-> <<>>, depth |-> 0]
    ELSE IF n.family # "AF_BRIDGE"
    THEN [ret |-> 0, entries |-> <<>>, calls |-> <<>>, depth |-> 0]
    ELSE IF FilteredOut(fi, n)
    THEN [ret |-> 0, entries |-> <<>>, calls |-> <<>>, depth |-> 0]
    ELSE LET es == PrintEntries(n.attrs) IN
         [ret |-> 0,
          entries |-> [i \in 1..Len(es) |->
                          [ifindex |-> n.ifindex,
                           deleted |-> n.nlmsg_type = "RTM_DELTUNNEL",
                           vni |-> es[i].vni, hasEnd |-> es[i].hasEnd,
                           vniEnd |-> es[i].vniEnd, key |-> es[i].key,
                           addr |-> es[i].addr]],
          calls |-> WalkTrace(Len(es)),
          depth |-> WalkDepth(Len(es))]

----------------------------------------------------------------------------
(* vni_show *)

\* the argument loop of vni_show: the device named, or how the loop ended
RECURSIVE ShowArgs(_, _, _)
ShowArgs(av, i, filter_dev) ==
    IF i > Len(av) THEN [err |-> "none", filter_dev |-> filter_dev]
    ELSE IF av[i] = KW_dev
         THEN IF i + 1 > Len(av)
              THEN [err |-> "incomplete_command", filter_dev |-> filter_dev]
              ELSE IF filter_dev # NULLSTR
              THEN [err |-> "duplicate_dev", filter_dev |-> filter_dev]
              ELSE ShowArgs(av, i + 2, av[i + 1])
         ELSE ShowArgs(av, i + 1, filter_dev)

----------------------------------------------------------------------------
(* SpecShow: show commands of a batch and the messages of their dumps *)

ShowCommands == {<<>>, <<KW_dev, Dev_vx0>>, <<KW_dev, Dev_vx1>>,
                 <<KW_dev, Dev_none>>, <<KW_dev>>, <<Dev_vx0>>,
                 <<KW_dev, Dev_vx0, KW_dev, Dev_vx1>>}

Kid32(type, v) == [rta_type |-> type, data |-> U32Bytes(v)]

Entry(kids) == [rta_type |-> "VXLAN_VNIFILTER_ENTRY", nested |-> TRUE,
                kids |-> kids, data |-> <<>>]

OtherAttr == [rta_type |-> "VXLAN_VNIFILTER_UNSPEC", nested |-> FALSE,
              kids |-> <<>>, data |-> <<>>]

AttrLists ==
    {<<>>,
     <<Entry(<<Kid32("VXLAN_VNIFILTER_ENTRY_START", 100)>>)>>,
     <<OtherAttr,
       Entry(<<Kid32("VXLAN_VNIFILTER_ENTRY_START", 100),
               Kid32("VXLAN_VNIFILTER_ENTRY_END", 105),
               [rta_type |-> "VXLAN_VNIFILTER_ENTRY_GROUP",
                data |-> <<239, 1, 1, 1>>]>>),
       Entry(<<Kid32("VXLAN_VNIFILTER_ENTRY_START", 7)>>)>>}

RECURSIVE AttrsLen(_)
AttrsLen(attrs) ==
    IF attrs = <<>> THEN 0
    ELSE LET a == Head(attrs)
             kidslen == IF a.nested
                        THEN AttrsLen([i \in 1..Len(a.kids) |->
                                 [rta_type |-> a.kids[i].rta_type,
                                  nested |-> FALSE, kids |-> <<>>,
                                  data |-> a.kids[i].data]])
                        ELSE Len(a.data)
         IN Align4(RTA_LENGTH(kidslen)) + AttrsLen(Tail(attrs))

\* the messages a dump can deliver: whole messages of any kind and family,
\* and messages that end before the tunnel_msg header (no family, no index)
Messages ==
    {[nlmsg_type |-> t, family |-> f, ifindex |-> x, attrs |-> as,
      nlmsg_len |-> NLMSG_LENGTH(TunnelMsgLen) + AttrsLen(as)] :
        t \in {"RTM_NEWTUNNEL", "RTM_DELTUNNEL", "RTM_GETTUNNEL", "RTM_NEWLINK"},
        f \in {"AF_BRIDGE", "AF_INET"}, x \in {3, 4}, as \in AttrLists}
    \cup
    {[nlmsg_type |-> t, family |-> "none", ifindex |-> 0, attrs |-> <<>>,
      nlmsg_len |-> NlmsgHdrLen] : t \in {"RTM_NEWTUNNEL", "RTM_NEWLINK"}}

InitShow ==
    /\ pc = "idle"
    /\ ModifyIdle /\ ShowIdle /\ CodecIdle

\* vni_show(argc, argv), up to the start of the dump
VniShow ==
    /\ pc = "idle"
    /\ \E av \in ShowCommands, dump_req_ok \in BOOLEAN :
         LET a  == ShowArgs(av, 1, NULLSTR)
             fi == IF a.filter_dev # NULLSTR
                   THEN ll_name_to_index(a.filter_dev) ELSE filter_index
         IN
         /\ show_dev' = a.filter_dev
         /\ nrecv' = 0 /\ out' = <<>> /\ trace' = <<>> /\ jdepth' = 0
         /\ last' = [seen |-> FALSE]
         /\ IF a.err # "none"
            THEN pc' = "exited" /\ UNCHANGED filter_index
            ELSE /\ filter_index' = fi
                 /\ pc' = IF a.filter_dev # NULLSTR /\ fi = 0 THEN "idle"
                          ELSE IF ~dump_req_ok THEN "exited"
                          ELSE "dumping"
    /\ UNCHANGED modifyVars /\ UNCHANGED codecVars

\* rtnl_dump_filter() gives the next message of the dump to
\* print_vnifilter_rtm_filter()
DumpMessage ==
    /\ pc = "dumping"
    /\ nrecv < MaxMsgs
    /\ \E n \in Messages :
         LET r == print_vnifilter_rtm(n, filter_index) IN
         /\ nrecv' = nrecv + 1
         /\ out' = out \o r.entries
         /\ trace' = trace \o r.calls
         /\ jdepth' = jdepth + r.depth
         /\ last' = [seen |-> TRUE, msg |-> n, ret |-> r.ret,
                     entries |-> r.entries, calls |-> r.calls]
         /\ pc' = IF r.ret < 0 THEN "exited" ELSE "dumping"
    /\ UNCHANGED <<filter_index, show_dev>>
    /\ UNCHANGED modifyVars /\ UNCHANGED codecVars

\* the dump is done: delete_json_obj(), return 0
DumpDone ==
    /\ pc = "dumping"
    /\ pc' = "idle"
    /\ UNCHANGED showVars
    /\ UNCHANGED modifyVars /\ UNCHANGED codecVars

NextShow == VniShow \/ DumpMessage \/ DumpDone

SpecShow == InitShow /\ [][NextShow]_vars

----------------------------------------------------------------------------
(* Claims about show *)

\* the message is one the dump is to print
Accepts(n, fi) ==
    /\ n.nlmsg_type \in {"RTM_NEWTUNNEL", "RTM_DELTUNNEL", "RTM_GETTUNNEL"}
    /\ n.family = "AF_BRIDGE"
    /\ (fi = 0 \/ fi = n.ifindex)

NumEntries(n) ==
    Cardinality({i \in 1..Len(n.attrs) :
                    n.attrs[i].rta_type = "VXLAN_VNIFILTER_ENTRY"})

HasHeader(n) == n.nlmsg_len >= NlmsgHdrLen + TunnelMsgLen

OnlyFilteredIndex ==
    filter_index # 0 => \A i \in 1..Len(out) : out[i].ifindex = filter_index

Printed(n) ==
    /\ Len(last.entries) = NumEntries(n)
    /\ \A i \in 1..Len(last.entries) : last.entries[i].ifindex = n.ifindex

Skipped == last.entries = <<>> /\ last.ret = 0 /\ pc # "exited"

\* C8 as stated: a message is printed if and only if its kind is one of the
\* three tunnel kinds, its family is the bridge family and the filter index
\* is 0 or its interface index; every other message is skipped with return
\* 0 and the dump goes on; with a filter index only entries of that index
\* are printed.
C8_SkipNonFatal ==
    /\ OnlyFilteredIndex
    /\ last.seen =>
         /\ Accepts(last.msg, filter_index) => Printed(last.msg)
         /\ ~Accepts(last.msg, filter_index) => Skipped

\* C8 amended: as C8, but a message of a tunnel kind that is shorter than
\* the message header plus the tunnel_msg header is fatal: the callback
\* returns -1, nothing is printed and the dump is terminated.
C8_SkipOrShort ==
    /\ OnlyFilteredIndex
    /\ last.seen =>
         IF KnownKind(last.msg) /\ ~HasHeader(last.msg)
         THEN last.entries = <<>> /\ last.ret = -1 /\ pc = "exited"
         ELSE /\ Accepts(last.msg, filter_index) =>
                    Printed(last.msg) /\ last.ret = 0
              /\ ~Accepts(last.msg, filter_index) => Skipped

\* a message for another interface was skipped after entries were printed,
\* and the dump goes on
C8_Witness ==
    /\ pc = "dumping" /\ last.seen
    /\ filter_index = 3 /\ last.msg.ifindex = 4
    /\ KnownKind(last.msg) /\ last.msg.family = "AF_BRIDGE"
    /\ NumEntries(last.msg) > 0 /\ last.entries = <<>>
    /\ Len(out) > 0

\* C9: while a dump runs, filter_index is the index of the device named by
\* the show command that started it, and 0 when it named none.
C9_FilterOfThisShow ==
    pc = "dumping" =>
        filter_index = IF show_dev = NULLSTR THEN 0
                       ELSE ll_name_to_index(show_dev)

Alternates(t) ==
    \A i \in 1..Len(t) :
        t[i] = IF i % 2 = 1 THEN "open_vni_port" ELSE "close_vni_port"

\* C10: open_vni_port and close_vni_port calls alternate, starting with an
\* open; a printed message without entry attributes makes neither call; the
\* depth of open objects and arrays is never negative and is 0 when the
\* dump is done.
C10_OpenCloseAlternate ==
    /\ Alternates(trace)
    /\ jdepth >= 0
    /\ pc = "idle" => jdepth = 0
    /\ (last.seen /\ NumEntries(last.msg) = 0) => last.calls = <<>>

====
